---------------------------- MODULE Spec2Model ----------------------------
(***************************************************************************)
(* Model of src/abc.py: the LoungeScraper live crawl.                      *)
(*                                                                         *)
(*   - _extract_lounge_info is the operator ExtractLoungeInfo over an      *)
(*     abstract DOM card;                                                  *)
(*   - scrape_page, scrape_all_pages and save_lounges are a state machine  *)
(*     with one action per statement that changes state.                   *)
(*                                                                         *)
(* Four specifications share the variables:                               *)
(*   Spec        the crawl, where browser launch, page creation and file   *)
(*               writes succeed (exceptions inside scrape_page's try block *)
(*               do occur);                                                *)
(*   SpecFault   the crawl with, in addition, the exceptions no handler in *)
(*               the code catches (launch, new_page, open/json.dump);      *)
(*   SpecExtract _extract_lounge_info applied to every card of a bounded   *)
(*               family;                                                   *)
(*   SpecLive    Spec with the fairness of a sequential program that keeps *)
(*               running.                                                  *)
(***************************************************************************)
EXTENDS Naturals, Sequences, FiniteSets, TLC

VARIABLES
    pc,             \* position of the single thread of control
    max_pages,      \* self.max_pages
    page_num,       \* loop variable of scrape_all_pages / argument of scrape_page
    all_lounges,    \* accumulator of scrape_all_pages
    page_lounges,   \* value returned by the last scrape_page call
    lounges,        \* local list of scrape_page
    files,          \* output directory: file name -> file content
    playwright,     \* the sync_playwright() context: "stopped" | "running"
    open_sessions,  \* number of browsers launched and not yet closed
    launches,       \* browsers launched by the current scrape_page call
    fetched,        \* history: page numbers scrape_page was called with
    results,        \* history: values returned by scrape_page, in call order
    raised,         \* history: statements that raised, in order
    card,           \* SpecExtract: the card handed to _extract_lounge_info
    lounge_data     \* SpecExtract: the dictionary it returned

vars == <<pc, max_pages, page_num, all_lounges, page_lounges, lounges, files,
          playwright, open_sessions, launches, fetched, results, raised,
          card, lounge_data>>

crawlVars == <<max_pages, page_num, all_lounges, page_lounges, lounges, files,
               playwright, open_sessions, launches, fetched, results, raised>>

-----------------------------------------------------------------------------
(* Bounds of the model *)

MaxPages == 3
MaxCards == 3
MaxImgs == 2
MaxClasses == 2
MaxBadges == 2

-----------------------------------------------------------------------------
(* Optional values (Python None / a missing node) and dictionaries *)

\* None, or the result of a select_one that matched nothing
None == <<>>
Some(x) == <<x>>
IsSome(o) == Len(o) > 0
TheValue(o) == o[1]

\* lounge_data = {}
EmptyDict == <<>>
\* d[k] = v
DictPut(d, k, v) == [kk \in (DOMAIN d) \cup {k} |-> IF kk = k THEN v ELSE d[kk]]
HasKey(d, k) == k \in DOMAIN d
\* truth value of a dict: `if lounge_data:`
DictTruthy(d) == DOMAIN d # {}

\* hours_data[day] = hours on an insertion-ordered dict, kept as a sequence
\* of [key, val] pairs: a repeated key keeps its place and takes the new value
OrderedPut(d, k, v) ==
    IF \E i \in 1..Len(d) : d[i].key = k
    THEN [i \in 1..Len(d) |-> IF d[i].key = k THEN [key |-> k, val |-> v] ELSE d[i]]
    ELSE Append(d, [key |-> k, val |-> v])

-----------------------------------------------------------------------------
(* Text: a string is a sequence of characters *)

RECURSIVE LStrip(_)
LStrip(s) == IF Len(s) > 0 /\ Head(s) = " " THEN LStrip(Tail(s)) ELSE s

RECURSIVE RStrip(_)
RStrip(s) ==
    IF Len(s) > 0 /\ s[Len(s)] = " " THEN RStrip(SubSeq(s, 1, Len(s) - 1)) ELSE s

\* str.strip()
Strip(s) == RStrip(LStrip(s))

\* An image title is a sequence of tokens; the token Sep is the literal ": "
Sep == ": "

\* title.split(': ')
RECURSIVE Split(_)
Split(t) ==
    IF \A i \in 1..Len(t) : t[i] # Sep
    THEN <<t>>
    ELSE LET i == CHOOSE k \in 1..Len(t) :
                      t[k] = Sep /\ \A j \in 1..(k - 1) : t[j] # Sep
         IN  <<SubSeq(t, 1, i - 1)>> \o Split(SubSeq(t, i + 1, Len(t)))

\* truth value of img.get('title'): None and '' are false
TitleTruthy(t) == IsSome(t) /\ Len(TheValue(t)) > 0

-----------------------------------------------------------------------------
(* Class tokens: a class name is the sequence of its '-'-separated segments *)

RatingPrefix == <<"geodir", "post", "rating", "value">>
RatingClass(suffix) == RatingPrefix \o <<suffix>>

\* the five classes of the selector passed to select_one
SelectorClasses == {RatingClass(n) : n \in {"1", "2", "3", "4", "5"}}

\* cls.startswith('geodir-post-rating-value-')
StartsWithRatingPrefix(cls) == Len(cls) >= 5 /\ SubSeq(cls, 1, 4) = RatingPrefix

\* cls.split('-')[-1]
LastSegment(cls) == cls[Len(cls)]

\* int(s): the decimal numerals of the model; every other string is a ValueError
NumeralValue ==
    [s \in {"0", "1", "2", "3", "4", "5", "6", "7", "8", "9", "10"} |->
        CASE s = "0" -> 0 [] s = "1" -> 1 [] s = "2" -> 2 [] s = "3" -> 3
          [] s = "4" -> 4 [] s = "5" -> 5 [] s = "6" -> 6 [] s = "7" -> 7
          [] s = "8" -> 8 [] s = "9" -> 9 [] s = "10" -> 10]
IsNumeral(s) == s \in DOMAIN NumeralValue

-----------------------------------------------------------------------------
(* _extract_lounge_info *)

\* lines 45-49: the title link
TitleStep(d, c) ==
    IF IsSome(c.title)
    THEN DictPut(DictPut(d, "name", Strip(TheValue(c.title).text)),
                 "url", TheValue(c.title).href)
    ELSE d

\* lines 54-59: operator
OperatorStep(d, loc) ==
    IF IsSome(loc.operator_div) /\ IsSome(TheValue(loc.operator_div).a)
    THEN DictPut(d, "operator", Strip(TheValue(TheValue(loc.operator_div).a)))
    ELSE d

\* lines 61-66: address
AddressStep(d, loc) ==
    IF IsSome(loc.address_div) /\ IsSome(TheValue(loc.address_div).span)
    THEN DictPut(d, "location", Strip(TheValue(TheValue(loc.address_div).span)))
    ELSE d

\* lines 73-79: the loop over the day rows
RECURSIVE HoursLoop(_, _)
HoursLoop(rows, hours_data) ==
    IF Len(rows) = 0 THEN hours_data
    ELSE LET row == Head(rows) IN
         IF IsSome(row.day) /\ IsSome(row.slot)
         THEN HoursLoop(Tail(rows),
                        OrderedPut(hours_data, Strip(TheValue(row.day)),
                                   Strip(TheValue(row.slot))))
         ELSE HoursLoop(Tail(rows), hours_data)

\* lines 68-80: business hours
HoursStep(d, loc) ==
    IF IsSome(loc.hours_div)
    THEN DictPut(d, "hours", HoursLoop(TheValue(loc.hours_div), <<>>))
    ELSE d

\* lines 87-91: the loop over the amenity images.  `name, status = ...`
\* raises ValueError unless the split gives exactly two parts; the loop ends
\* there and the list built so far is dropped with the frame.
RECURSIVE AmenityLoop(_, _)
AmenityLoop(imgs, amenities) ==
    IF Len(imgs) = 0 THEN [raised |-> FALSE, amenities |-> amenities]
    ELSE LET title == Head(imgs).title IN
         IF ~TitleTruthy(title) THEN AmenityLoop(Tail(imgs), amenities)
         ELSE LET parts == Split(TheValue(title)) IN
              IF Len(parts) # 2
              THEN [raised |-> TRUE, amenities |-> amenities]
              ELSE AmenityLoop(Tail(imgs),
                       Append(amenities,
                              [name |-> parts[1], available |-> parts[2] = <<"yes">>]))

\* lines 82-92: amenities
AmenitiesStep(d, loc) ==
    IF IsSome(loc.amenities_div)
    THEN LET r == AmenityLoop(TheValue(loc.amenities_div), <<>>) IN
         IF r.raised THEN [raised |-> TRUE, data |-> d]
         ELSE [raised |-> FALSE, data |-> DictPut(d, "amenities", r.amenities)]
    ELSE [raised |-> FALSE, data |-> d]

\* lines 51-92: the location container
LocationStep(d, c) ==
    IF IsSome(c.location)
    THEN LET loc == TheValue(c.location) IN
         AmenitiesStep(HoursStep(AddressStep(OperatorStep(d, loc), loc), loc), loc)
    ELSE [raised |-> FALSE, data |-> d]

\* the element matches the selector of line 95
MatchesRatingSelector(el) == \E i \in 1..Len(el) : el[i] \in SelectorClasses

\* select_one of line 95: the first element, in document order, that matches
RatingDiv(c) ==
    IF \E i \in 1..Len(c.elements) : MatchesRatingSelector(c.elements[i])
    THEN Some(c.elements[CHOOSE i \in 1..Len(c.elements) :
                  /\ MatchesRatingSelector(c.elements[i])
                  /\ \A j \in 1..(i - 1) : ~MatchesRatingSelector(c.elements[j])])
    ELSE None

\* lines 99-104: the loop over the element's classes
RECURSIVE RatingLoop(_, _)
RatingLoop(rating_class, rating_value) ==
    IF Len(rating_class) = 0 THEN rating_value
    ELSE LET cls == Head(rating_class) IN
         IF StartsWithRatingPrefix(cls) /\ IsNumeral(LastSegment(cls))
         THEN RatingLoop(Tail(rating_class), NumeralValue[LastSegment(cls)])
         ELSE RatingLoop(Tail(rating_class), rating_value)

\* lines 94-105: rating
RatingStep(d, c) ==
    IF IsSome(RatingDiv(c))
    THEN DictPut(d, "rating", RatingLoop(TheValue(RatingDiv(c)), 0))
    ELSE d

\* lines 112-115: the loop over the badge spans
RECURSIVE BadgeLoop(_, _)
BadgeLoop(spans, badges) ==
    IF Len(spans) = 0 THEN badges
    ELSE IF Len(Strip(Head(spans))) > 0
         THEN BadgeLoop(Tail(spans), Append(badges, Strip(Head(spans))))
         ELSE BadgeLoop(Tail(spans), badges)

\* lines 107-117: badges
BadgesStep(d, c) ==
    IF IsSome(c.badges_div) /\ Len(BadgeLoop(TheValue(c.badges_div), <<>>)) > 0
    THEN DictPut(d, "badges", BadgeLoop(TheValue(c.badges_div), <<>>))
    ELSE d

\* lines 119-122: online booking
BookingStep(d, c) ==
    IF c.book_now THEN DictPut(d, "online_booking_available", TRUE) ELSE d

\* lines 40-127: an exception anywhere in the try block ends the extraction
\* and the dictionary built so far is returned
ExtractLoungeInfo(c) ==
    LET loc == LocationStep(TitleStep(EmptyDict, c), c) IN
    IF loc.raised
    THEN loc.data
    ELSE BookingStep(BadgesStep(RatingStep(loc.data, c), c), c)

-----------------------------------------------------------------------------
(* The cards _extract_lounge_info is applied to *)

\* all sequences over S of length at most n
SeqsUpTo(S, n) == UNION {[1..k -> S] : k \in 0..n}

\* h2 a: absent; blank text and no href; a name with surrounding blanks
TitleTags ==
    { None,
      Some([text |-> <<" ">>, href |-> None]),
      Some([text |-> <<" ", "A", " ">>, href |-> Some("/a")]) }

OperatorDivs == { None, Some([a |-> Some(<<"O", " ">>)]) }

AddressDivs == { Some([span |-> None]), Some([span |-> Some(<<" ", "X">>)]) }

\* a table with a repeated day and a row without its time range
HoursDivs ==
    { None,
      Some(<< [day |-> Some(<<"M">>), slot |-> Some(<<"9", " ">>)],
              [day |-> Some(<<"T">>), slot |-> None],
              [day |-> Some(<<"M", " ">>), slot |-> Some(<<"8">>)] >>) }

\* img title attributes: missing, "wifi: yes", "bar: Yes", "spa" (no
\* separator), "tv: hd: yes" (two separators)
ImgTitles ==
    { None,
      Some(<<"wifi", Sep, "yes">>),
      Some(<<"bar", Sep, "Yes">>),
      Some(<<"spa">>),
      Some(<<"tv", Sep, "hd", Sep, "yes">>) }

Imgs == {[title |-> t] : t \in ImgTitles}

AmenitiesDivs == {None} \cup {Some(s) : s \in SeqsUpTo(Imgs, MaxImgs)}

Locations ==
    {None} \cup
    { Some([operator_div |-> o, address_div |-> a, hours_div |-> h,
            amenities_div |-> m]) :
        o \in OperatorDivs, a \in AddressDivs, h \in HoursDivs, m \in AmenitiesDivs }

\* class names: "card", "geodir-post-rating-value-4", "...-2", "...-x", "...-7"
ClassTokens ==
    { <<"card">>, RatingClass("4"), RatingClass("2"), RatingClass("x"),
      RatingClass("7") }

ClassLists == SeqsUpTo(ClassTokens, MaxClasses) \ {<<>>}

\* the classed elements of the card, in document order: none or one
ElementLists == {<<>>} \cup {<<cl>> : cl \in ClassLists}

BadgeTexts == { <<" ">>, <<"b", " ">> }

BadgesDivs == {None} \cup {Some(s) : s \in SeqsUpTo(BadgeTexts, MaxBadges)}

\* the card of a specification that extracts nothing
NoCard ==
    [title |-> None, location |-> None, elements |-> <<>>, badges_div |-> None,
     book_now |-> FALSE]

-----------------------------------------------------------------------------
(* State after LoungeScraper.__init__ and before scrape_all_pages *)

\* lines 22-38, with the locals of scrape_all_pages (186) and scrape_page (142)
CrawlInit ==
    /\ max_pages \in 0..MaxPages
    /\ page_num = 1
    /\ all_lounges = <<>>
    /\ page_lounges = <<>>
    /\ lounges = <<>>
    /\ files = <<>>
    /\ playwright = "stopped"
    /\ open_sessions = 0
    /\ launches = 0
    /\ fetched = <<>>
    /\ results = <<>>
    /\ raised = <<>>

-----------------------------------------------------------------------------
(* SpecExtract: _extract_lounge_info on every card of ExtractCards *)

InitExtract ==
    /\ pc = "extract"
    /\ card \in [title : TitleTags, location : Locations, elements : ElementLists,
                  badges_div : BadgesDivs, book_now : BOOLEAN]
    /\ lounge_data = EmptyDict
    /\ CrawlInit
    /\ max_pages = 0

\* one call of _extract_lounge_info
Extract ==
    /\ pc = "extract"
    /\ lounge_data' = ExtractLoungeInfo(card)
    /\ pc' = "extracted"
    /\ UNCHANGED <<card, max_pages, page_num, all_lounges, page_lounges, lounges,
                   files, playwright, open_sessions, launches, fetched, results,
                   raised>>

NextExtract == Extract

SpecExtract == InitExtract /\ [][NextExtract]_vars

-----------------------------------------------------------------------------
(* The pages the site serves to the crawl *)

\* a full listing; a second, bare listing; a card without title link but
\* with a rating; a card with nothing the extractor looks for
CardA ==
    [title |-> Some([text |-> <<" ", "A", " ">>, href |-> Some("/a")]),
     location |-> Some([operator_div |-> Some([a |-> Some(<<"O", " ">>)]),
                        address_div |-> Some([span |-> Some(<<" ", "X">>)]),
                        hours_div |-> None,
                        amenities_div |-> Some(<<[title |-> Some(<<"wifi", Sep, "yes">>)]>>)]),
     elements |-> << <<RatingClass("4")>> >>,
     badges_div |-> None,
     book_now |-> TRUE]

CardB ==
    [title |-> Some([text |-> <<"B">>, href |-> Some("/b")]),
     location |-> None, elements |-> <<>>, badges_div |-> None, book_now |-> FALSE]

CardNoTitle ==
    [title |-> None, location |-> None, elements |-> << <<RatingClass("4")>> >>,
     badges_div |-> None, book_now |-> FALSE]

CrawlCards == <<CardA, CardB, CardNoTitle, NoCard>>

\* the page of n cards that starts at the s-th card of CrawlCards and goes
\* round them
PageCards(n, s) ==
    [i \in 1..n |-> CrawlCards[((s + i - 2) % Len(CrawlCards)) + 1]]

\* soup.select('.geodir-post') of the pages served
PageHtmls == {PageCards(n, s) : n \in 0..MaxCards, s \in 1..Len(CrawlCards)}

-----------------------------------------------------------------------------
(* Output files *)

\* f"lounges_page_{page_num}.json" and "lounges_all.json"
PageFile(n) == <<"lounges_page", n>>
AllFile == <<"lounges_all", 0>>

\* json.dump(lounges, f, ...) that ran to its end: the file holds the array
JsonDump(lst) == [complete |-> TRUE, data |-> lst]

\* open(output_path, 'w') truncated the file and json.dump raised
Truncated == [complete |-> FALSE, data |-> <<>>]

WriteFile(fs, filename, content) ==
    [f \in (DOMAIN fs) \cup {filename} |-> IF f = filename THEN content ELSE fs[f]]

\* lines 209-214
SaveLounges(fs, lst, filename) == WriteFile(fs, filename, JsonDump(lst))

-----------------------------------------------------------------------------
(* scrape_page *)

\* lines 169-172: the loop over the cards
RECURSIVE ScrapeCards(_, _)
ScrapeCards(cards, acc) ==
    IF Len(cards) = 0 THEN acc
    ELSE LET data == ExtractLoungeInfo(Head(cards)) IN
         ScrapeCards(Tail(cards), IF DictTruthy(data) THEN Append(acc, data) ELSE acc)

extractVars == <<card, lounge_data>>

\* line 144: with sync_playwright() as p
EnterPlaywright ==
    /\ pc = "sp_with"
    /\ playwright' = "running"
    /\ pc' = "sp_launch"
    /\ UNCHANGED <<max_pages, page_num, all_lounges, page_lounges, lounges, files,
                   open_sessions, launches, fetched, results, raised, extractVars>>

\* line 145: browser = p.chromium.launch(headless=True)
Launch ==
    /\ pc = "sp_launch"
    /\ open_sessions' = open_sessions + 1
    /\ launches' = launches + 1
    /\ pc' = "sp_new_page"
    /\ UNCHANGED <<max_pages, page_num, all_lounges, page_lounges, lounges, files,
                   playwright, fetched, results, raised, extractVars>>

\* line 146: page = browser.new_page(...)
NewPage ==
    /\ pc = "sp_new_page"
    /\ pc' = "sp_goto"
    /\ UNCHANGED <<crawlVars, extractVars>>

\* line 150: page.goto(url, wait_until="networkidle")
Goto ==
    /\ pc = "sp_goto"
    /\ pc' = "sp_wait"
    /\ UNCHANGED <<crawlVars, extractVars>>

\* line 150 raises; lines 176-177 catch it
GotoRaises ==
    /\ pc = "sp_goto"
    /\ raised' = Append(raised, "goto")
    /\ pc' = "sp_finally"
    /\ UNCHANGED <<max_pages, page_num, all_lounges, page_lounges, lounges, files,
                   playwright, open_sessions, launches, fetched, results, extractVars>>

\* line 153: page.wait_for_selector('.geodir-loop-container', timeout=30000)
WaitForSelector ==
    /\ pc = "sp_wait"
    /\ pc' = "sp_content"
    /\ UNCHANGED <<crawlVars, extractVars>>

\* line 153 times out; lines 176-177 catch it
WaitForSelectorRaises ==
    /\ pc = "sp_wait"
    /\ raised' = Append(raised, "wait_for_selector")
    /\ pc' = "sp_finally"
    /\ UNCHANGED <<max_pages, page_num, all_lounges, page_lounges, lounges, files,
                   playwright, open_sessions, launches, fetched, results, extractVars>>

\* lines 156-166: the page has no card: return [] (lounges is still [])
NoCards ==
    /\ pc = "sp_content"
    /\ \E cards \in PageHtmls : Len(cards) = 0
    /\ lounges' = <<>>
    /\ pc' = "sp_finally"
    /\ UNCHANGED <<max_pages, page_num, all_lounges, page_lounges, files, playwright,
                   open_sessions, launches, fetched, results, raised, extractVars>>

\* lines 156-174: the page has cards: extract each and keep the non-empty
\* dictionaries
ParseCards ==
    /\ pc = "sp_content"
    /\ \E cards \in PageHtmls :
          /\ Len(cards) > 0
          /\ lounges' = ScrapeCards(cards, lounges)
    /\ pc' = "sp_finally"
    /\ UNCHANGED <<max_pages, page_num, all_lounges, page_lounges, files, playwright,
                   open_sessions, launches, fetched, results, raised, extractVars>>

\* line 156 or 159 raises; lines 176-177 catch it
ContentRaises ==
    /\ pc = "sp_content"
    /\ raised' = Append(raised, "content")
    /\ pc' = "sp_finally"
    /\ UNCHANGED <<max_pages, page_num, all_lounges, page_lounges, lounges, files,
                   playwright, open_sessions, launches, fetched, results, extractVars>>

\* a finally block that forgets browser.close()
FinallyWithoutClose ==
    /\ pc = "sp_finally"
    /\ pc' = "sp_exit_with"
    /\ UNCHANGED <<crawlVars, extractVars>>

\* lines 179-180: finally: browser.close()
Finally ==
    /\ pc = "sp_finally"
    /\ open_sessions' = open_sessions - 1
    /\ pc' = "sp_exit_with"
    /\ UNCHANGED <<max_pages, page_num, all_lounges, page_lounges, lounges, files,
                   playwright, launches, fetched, results, raised, extractVars>>

\* line 144, leaving the with block: the Playwright driver stops, and with
\* it every browser it launched that is still running
ExitPlaywright ==
    /\ pc = "sp_exit_with"
    /\ playwright' = "stopped"
    /\ open_sessions' = 0
    /\ pc' = "sp_return"
    /\ UNCHANGED <<max_pages, page_num, all_lounges, page_lounges, lounges, files,
                   launches, fetched, results, raised, extractVars>>

\* line 182 (and 166): return lounges; line 190: page_lounges = ...
Return ==
    /\ pc = "sp_return"
    /\ page_lounges' = lounges
    /\ results' = Append(results, lounges)
    /\ pc' = "check"
    /\ UNCHANGED <<max_pages, page_num, all_lounges, lounges, files, playwright,
                   open_sessions, launches, fetched, raised, extractVars>>

-----------------------------------------------------------------------------
(* scrape_all_pages *)

\* a loop over range(1, max_pages + 2)
LoopNextOffByOne ==
    /\ pc = "loop"
    /\ page_num <= max_pages + 1
    /\ fetched' = Append(fetched, page_num)
    /\ lounges' = <<>>
    /\ launches' = 0
    /\ pc' = "sp_with"
    /\ UNCHANGED <<max_pages, page_num, all_lounges, page_lounges, files, playwright,
                   open_sessions, results, raised, extractVars>>

\* line 188, another page: line 190 calls scrape_page(page_num); lines 139-142
LoopNext ==
    /\ pc = "loop"
    /\ page_num <= max_pages
    /\ fetched' = Append(fetched, page_num)
    /\ lounges' = <<>>
    /\ launches' = 0
    /\ pc' = "sp_with"
    /\ UNCHANGED <<max_pages, page_num, all_lounges, page_lounges, files, playwright,
                   open_sessions, results, raised, extractVars>>

\* line 188, range(1, max_pages + 1) is exhausted
LoopExit ==
    /\ pc = "loop"
    /\ page_num > max_pages
    /\ pc' = "final_save"
    /\ UNCHANGED <<crawlVars, extractVars>>

\* an empty page that is skipped (continue) instead of ending the loop
BreakContinues ==
    /\ pc = "check"
    /\ Len(page_lounges) = 0
    /\ pc' = "sleep"
    /\ UNCHANGED <<crawlVars, extractVars>>

\* lines 193-195: if not page_lounges: break
Break ==
    /\ pc = "check"
    /\ Len(page_lounges) = 0
    /\ pc' = "final_save"
    /\ UNCHANGED <<crawlVars, extractVars>>

\* line 197: all_lounges.extend(page_lounges)
Extend ==
    /\ pc = "check"
    /\ Len(page_lounges) > 0
    /\ all_lounges' = all_lounges \o page_lounges
    /\ pc' = "save_page"
    /\ UNCHANGED <<max_pages, page_num, page_lounges, lounges, files, playwright,
                   open_sessions, launches, fetched, results, raised, extractVars>>

\* a snapshot of the page's own records instead of the accumulator
SavePageOnly ==
    /\ pc = "save_page"
    /\ files' = SaveLounges(files, page_lounges, PageFile(page_num))
    /\ pc' = "sleep"
    /\ UNCHANGED <<max_pages, page_num, all_lounges, page_lounges, lounges, playwright,
                   open_sessions, launches, fetched, results, raised, extractVars>>

\* line 200: self.save_lounges(all_lounges, f"lounges_page_{page_num}.json")
SavePage ==
    /\ pc = "save_page"
    /\ files' = SaveLounges(files, all_lounges, PageFile(page_num))
    /\ pc' = "sleep"
    /\ UNCHANGED <<max_pages, page_num, all_lounges, page_lounges, lounges, playwright,
                   open_sessions, launches, fetched, results, raised, extractVars>>

\* line 203: time.sleep(2), then the next value of the range
Sleep ==
    /\ pc = "sleep"
    /\ page_num' = page_num + 1
    /\ pc' = "loop"
    /\ UNCHANGED <<max_pages, all_lounges, page_lounges, lounges, files, playwright,
                   open_sessions, launches, fetched, results, raised, extractVars>>

\* line 206: self.save_lounges(all_lounges, "lounges_all.json")
SaveFinal ==
    /\ pc = "final_save"
    /\ files' = SaveLounges(files, all_lounges, AllFile)
    /\ pc' = "done"
    /\ UNCHANGED <<max_pages, page_num, all_lounges, page_lounges, lounges, playwright,
                   open_sessions, launches, fetched, results, raised, extractVars>>

-----------------------------------------------------------------------------
(* Exceptions that no handler catches: they leave scrape_all_pages and main *)

\* line 145 raises, outside the try of line 148; the with block is left
LaunchRaises ==
    /\ pc = "sp_launch"
    /\ raised' = Append(raised, "launch")
    /\ playwright' = "stopped"
    /\ open_sessions' = 0
    /\ pc' = "crashed"
    /\ UNCHANGED <<max_pages, page_num, all_lounges, page_lounges, lounges, files,
                   launches, fetched, results, extractVars>>

\* line 146 raises, outside the try of line 148: browser.close() of line 180
\* does not run; the with block is left and the driver stops
NewPageRaises ==
    /\ pc = "sp_new_page"
    /\ raised' = Append(raised, "new_page")
    /\ playwright' = "stopped"
    /\ open_sessions' = 0
    /\ pc' = "crashed"
    /\ UNCHANGED <<max_pages, page_num, all_lounges, page_lounges, lounges, files,
                   launches, fetched, results, extractVars>>

\* lines 212-213 raise in a save: open() fails and leaves the directory as it
\* was, or json.dump fails on the file open() has truncated
SaveRaises ==
    /\ pc \in {"save_page", "final_save"}
    /\ LET filename == IF pc = "save_page" THEN PageFile(page_num) ELSE AllFile IN
       \/ files' = files
       \/ files' = WriteFile(files, filename, Truncated)
    /\ raised' = Append(raised, "write")
    /\ pc' = "crashed"
    /\ UNCHANGED <<max_pages, page_num, all_lounges, page_lounges, lounges, playwright,
                   open_sessions, launches, fetched, results, extractVars>>

-----------------------------------------------------------------------------
(* Specifications of the crawl *)

Init ==
    /\ pc = "loop"
    /\ CrawlInit
    /\ card = NoCard
    /\ lounge_data = EmptyDict

Next ==
    \/ LoopNext \/ LoopExit
    \/ EnterPlaywright \/ Launch \/ NewPage
    \/ Goto \/ GotoRaises
    \/ WaitForSelector \/ WaitForSelectorRaises
    \/ NoCards \/ ParseCards \/ ContentRaises
    \/ Finally \/ ExitPlaywright \/ Return
    \/ Break \/ Extend \/ SavePage \/ Sleep \/ SaveFinal

Spec == Init /\ [][Next]_vars

NextFault == Next \/ LaunchRaises \/ NewPageRaises \/ SaveRaises

SpecFault == Init /\ [][NextFault]_vars

\* a sequential program keeps taking its next step: every blocking call of
\* the loop is bounded (wait_for_selector by its timeout, sleep by 2 s)
SpecLive == Init /\ [][Next]_vars /\ WF_vars(Next)

-----------------------------------------------------------------------------
(* Properties *)

RECURSIVE Flatten(_)
Flatten(ss) == IF Len(ss) = 0 THEN <<>> ELSE Head(ss) \o Flatten(Tail(ss))

\* the pages whose result has come back are all non-empty
AllNonEmpty == \A i \in 1..Len(results) : Len(results[i]) > 0

\* C1, safety: pages are fetched in the order 1, 2, ...; once a page's result
\* is empty no later page is fetched, no snapshot is written for that page,
\* the loop is over, and the run ends with lounges_all.json holding, in
\* order, exactly the records of the pages before it.
C1_StopsAtEmptyPage ==
    /\ \A i \in 1..Len(fetched) : fetched[i] = i
    /\ Len(results) <= Len(fetched)
    /\ Len(fetched) <= Len(results) + 1
    /\ \A i \in 1..Len(results) :
          Len(results[i]) = 0 =>
             /\ Len(fetched) = i
             /\ pc \in {"check", "final_save", "done"}
             /\ PageFile(i) \notin DOMAIN files
             /\ DOMAIN files \ {AllFile} = {PageFile(n) : n \in 1..(i - 1)}
             /\ pc = "done" =>
                   /\ AllFile \in DOMAIN files
                   /\ files[AllFile] = JsonDump(Flatten(SubSeq(results, 1, i - 1)))

\* C1: the crawl stops at the first empty page as stated above, and then
\* does write lounges_all.json.
C1_StopsAtFirstEmptyPage ==
    [](C1_StopsAtEmptyPage) /\ <>(pc = "done" /\ AllFile \in DOMAIN files)

\* C1 witness: results of 3, 2 and 0 records, snapshots for pages 1 and 2
\* only, and a final file of 5 records
C1_Witness ==
    /\ pc = "done"
    /\ Len(results) = 3
    /\ Len(results[1]) = 3 /\ Len(results[2]) = 2 /\ Len(results[3]) = 0
    /\ fetched = <<1, 2, 3>>
    /\ DOMAIN files = {PageFile(1), PageFile(2), AllFile}
    /\ Len(files[AllFile].data) = 5

\* C2, safety: no page beyond max_pages is ever fetched, and a run whose
\* pages were all non-empty ends having fetched exactly pages 1..max_pages,
\* with lounges_all.json holding exactly their records.
C2_Bounded ==
    /\ Len(fetched) <= max_pages
    /\ \A i \in 1..Len(fetched) : fetched[i] \in 1..max_pages
    /\ (pc = "done" /\ AllNonEmpty) =>
          /\ fetched = [i \in 1..max_pages |-> i]
          /\ Len(results) = max_pages
          /\ AllFile \in DOMAIN files
          /\ files[AllFile] = JsonDump(Flatten(results))

\* C2: for every max_pages the crawl terminates, and it does so within the
\* bound above.
C2_TerminatesWithinMaxPages == [](C2_Bounded) /\ <>(pc = "done")

\* C2 witness: max_pages = 2, one record on each page, two fetches, a final
\* file of 2 records
C2_Witness ==
    /\ pc = "done"
    /\ max_pages = 2
    /\ fetched = <<1, 2>>
    /\ Len(results) = 2 /\ Len(results[1]) = 1 /\ Len(results[2]) = 1
    /\ Len(files[AllFile].data) = 2

\* page n is completed: its snapshot has been written
Completed(n) == n < page_num \/ (n = page_num /\ pc = "sleep")

\* C3: lounges_page_<n>.json exists exactly for the completed pages n, each
\* of them non-empty, and holds the records of pages 1..n in page and
\* document order; lounges_all.json exists exactly when the run is over and
\* holds the whole accumulator: the last snapshot, or [] when there is none.
C3_SnapshotsAreCumulative ==
    /\ DOMAIN files \subseteq {PageFile(n) : n \in 1..page_num} \cup {AllFile}
    /\ \A n \in 1..page_num :
          /\ PageFile(n) \in DOMAIN files <=> Completed(n)
          /\ PageFile(n) \in DOMAIN files =>
                /\ n <= Len(results)
                /\ Len(results[n]) > 0
                /\ files[PageFile(n)] = JsonDump(Flatten(SubSeq(results, 1, n)))
    /\ AllFile \in DOMAIN files <=> pc = "done"
    /\ pc = "done" =>
          /\ files[AllFile] = JsonDump(Flatten(results))
          /\ \A n \in 1..page_num :
                (PageFile(n) \in DOMAIN files /\ PageFile(n + 1) \notin DOMAIN files)
                   => files[AllFile] = files[PageFile(n)]
          /\ PageFile(1) \notin DOMAIN files => files[AllFile] = JsonDump(<<>>)

\* C3 witness: a finished run of two non-empty pages, the second snapshot
\* longer than the first and equal to the final file
C3_Witness ==
    /\ pc = "done"
    /\ DOMAIN files = {PageFile(1), PageFile(2), AllFile}
    /\ Len(files[PageFile(1)].data) = 2
    /\ Len(files[PageFile(2)].data) = 5
    /\ files[AllFile] = files[PageFile(2)]

\* `name` is present and non-empty
HasName(r) == HasKey(r, "name") /\ Len(r.name) > 0

AllHaveName(lst) == \A i \in 1..Len(lst) : HasName(lst[i])

\* C4: every record of a page result, of the accumulator and of every
\* written file has a non-empty `name`.
C4_EveryRecordHasName ==
    /\ AllHaveName(lounges)
    /\ AllHaveName(page_lounges)
    /\ AllHaveName(all_lounges)
    /\ \A f \in DOMAIN files : AllHaveName(files[f].data)

\* the label of the image does not split into exactly two parts
BadLabel(img) == TitleTruthy(img.title) /\ Len(Split(TheValue(img.title))) # 2

\* the amenities of the images whose label splits into exactly two parts
RECURSIVE WellFormedAmenities(_)
WellFormedAmenities(imgs) ==
    IF Len(imgs) = 0 THEN <<>>
    ELSE LET rest == WellFormedAmenities(Tail(imgs)) IN
         IF TitleTruthy(Head(imgs).title) /\ ~BadLabel(Head(imgs))
         THEN <<[name |-> Split(TheValue(Head(imgs).title))[1],
                 available |-> Split(TheValue(Head(imgs).title))[2] = <<"yes">>]>>
              \o rest
         ELSE rest

\* the card has an amenity image whose label does not split in two
HasBadLabel(c) ==
    /\ IsSome(c.location)
    /\ IsSome(TheValue(c.location).amenities_div)
    /\ \E i \in 1..Len(TheValue(TheValue(c.location).amenities_div)) :
          BadLabel(TheValue(TheValue(c.location).amenities_div)[i])

\* C5: a label that does not split into exactly two parts only drops that
\* amenity: the card's other amenities are in `amenities`, and rating,
\* badges and online booking are still extracted.
C5_BadLabelOnlySkipsThatAmenity ==
    (pc = "extracted" /\ HasBadLabel(card)) =>
       /\ HasKey(lounge_data, "amenities")
       /\ lounge_data.amenities =
             WellFormedAmenities(TheValue(TheValue(card.location).amenities_div))
       /\ lounge_data = BookingStep(BadgesStep(RatingStep(lounge_data, card), card), card)

\* the card has a class that starts with geodir-post-rating-value-
HasRatingToken(c) ==
    \E i \in 1..Len(c.elements) : \E j \in 1..Len(c.elements[i]) :
       StartsWithRatingPrefix(c.elements[i][j])

\* C6: every extracted record has an integer rating in 0..5; it is 0 when
\* the card has no rating class, and 0 when the only rating classes have a
\* non-numeric suffix.
C6_RatingAlwaysPresent ==
    pc = "extracted" =>
       /\ HasKey(lounge_data, "rating")
       /\ lounge_data.rating \in 0..5
       /\ ~HasRatingToken(card) => lounge_data.rating = 0
       /\ (\A i \in 1..Len(card.elements) : \A j \in 1..Len(card.elements[i]) :
              StartsWithRatingPrefix(card.elements[i][j])
                 => ~IsNumeral(LastSegment(card.elements[i][j])))
             => lounge_data.rating = 0

\* C7: the record has the key online_booking_available, with value true,
\* exactly when the card has the booking marker.
C7_BookingKeyIffMarker ==
    pc = "extracted" =>
       /\ HasKey(lounge_data, "online_booking_available") <=> card.book_now
       /\ HasKey(lounge_data, "online_booking_available")
             => lounge_data.online_booking_available = TRUE

FetchStatements == {"launch", "new_page", "goto", "wait_for_selector", "content"}

\* C9: an exception of the fetch or parse of a page never leaves
\* scrape_page: the call returns [], the loop stops there and the final file
\* is written with the records accumulated so far.
C9_FetchErrorsAreContained ==
    (Len(raised) > 0 /\ raised[Len(raised)] \in FetchStatements) =>
       /\ pc # "crashed"
       /\ pc \in {"check", "final_save", "done"} =>
             /\ Len(results) = Len(fetched)
             /\ Len(results[Len(results)]) = 0
       /\ pc = "done" =>
             /\ AllFile \in DOMAIN files
             /\ files[AllFile] = JsonDump(all_lounges)

\* C10: a failed write does not leave save_lounges: the crawl goes on.
C10_WriteErrorsAreContained ==
    (\E i \in 1..Len(raised) : raised[i] = "write") => pc # "crashed"

=============================================================================
